---- MODULE Spec2Model ----
(***************************************************************************)
(* The five barriers of ck_barrier.c (centralized, combining tree,        *)
(* dissemination, tournament, MCS tree) as state machines.  Every atomic  *)
(* access to a shared mutable word (ck_pr_faa_uint, ck_pr_load_uint,      *)
(* ck_pr_store_uint) is one step of the calling thread; the thread-local  *)
(* statements around an access belong to the same step.                   *)
(***************************************************************************)
EXTENDS Integers, Sequences, FiniteSets, TLC

VARIABLES
    alg,        \* which barrier this behaviour runs
    nthr,       \* number of participating threads
    tnode,      \* combining: the group each thread passes to ck_barrier_combining
    barrier,    \* struct ck_barrier_centralized: value, sense
    groups,     \* combining: the struct ck_barrier_combining_group objects
    flags,      \* dissemination: barrier[i].flags[parity][k] (tflag, pflag)
    rounds,     \* tournament: rounds[i][k] (flag, role, opponent)
    nodes,      \* MCS: barrier[i] (havechild, childnotready, parent, ...)
    state,      \* per-thread barrier state structs
    local,      \* per-thread automatic variables of the running wait call
    pc,         \* per-thread position inside the wait call ("idle": outside)
    calls,      \* per-thread number of wait calls started so far
    writes,     \* number of stores to barrier.sense (centralized), to each
                \* group's sense (combining) so far
    oob         \* per-thread: has read a slot no init function wrote

vars == <<alg, nthr, tnode, barrier, groups, flags, rounds, nodes,
          state, local, pc, calls, writes, oob>>

config == <<alg, nthr, tnode>>

(* Bounds of the exploration: the number of wait calls per thread, the     *)
(* largest thread count each barrier is run with, and for the construction *)
(* of the combining tree the number of groups and the threads per group.   *)
MaxEpisodes == 4
MaxCentralizedThreads == 5
MaxCombiningThreads == 5
MaxDisseminationThreads == 5
MaxTournamentThreads == 5
MaxMcsThreads == 4
MaxSmallThreads == 3
MaxCombiningGroups == 4
MaxGroupThreads == 2
MaxMcsInitThreads == 7
MaxInstances == 2

\* the thread counts explored; beyond the bound, 7 (three rounds, not a power
\* of two) for dissemination and tournament, and 6 (the first count whose
\* 4-ary arrival tree has two levels) for MCS
CentralizedThreadCounts == 1 .. MaxCentralizedThreads
DisseminationThreadCounts == (1 .. MaxDisseminationThreads) \cup {7}
TournamentThreadCounts == (1 .. MaxTournamentThreads) \cup {7}
McsThreadCounts == (1 .. MaxMcsThreads) \cup {6}
SmallThreadCounts == 1 .. MaxSmallThreads

\* thread indices any configuration may use
MaxThreads ==
    LET all == CentralizedThreadCounts \cup {MaxCombiningThreads, MaxCombiningGroups}
                 \cup DisseminationThreadCounts \cup TournamentThreadCounts
                 \cup McsThreadCounts \cup SmallThreadCounts
    IN  CHOOSE m \in all : \A n \in all : n <= m
ThreadIds == 0 .. (MaxThreads - 1)

(* An unsigned int word is written as the two's-complement reading of its  *)
(* 32-bit pattern, so ~0 (0xFFFFFFFF) is -1 and ~x is -x - 1.  Sense words *)
(* are only compared for equality; the arrival counters stay far below     *)
(* 2^31, where the two readings of a pattern agree.                        *)
AllOnes == -1

Threads == 0 .. (nthr - 1)

\* ~x on unsigned int
Not(x) == (-x) - 1

\* number of wait calls thread t has returned from
Returned(t) == IF pc[t] = "idle" THEN calls[t] ELSE calls[t] - 1

(***************************************************************************)
(* Shared helpers: the bit tricks on unsigned int.  A word below 2^31 is   *)
(* handled through the set of positions of its one bits.                   *)
(***************************************************************************)
Bits(v) == {j \in 0 .. 30 : (v \div (2 ^ j)) % 2 = 1}

RECURSIVE FromBits(_)
FromBits(B) ==
    IF B = {} THEN 0
    ELSE LET j == CHOOSE x \in B : TRUE IN (2 ^ j) + FromBits(B \ {j})

BitOr(a, b) == FromBits(Bits(a) \cup Bits(b))
BitAnd(a, b) == FromBits(Bits(a) \cap Bits(b))
ShiftRight(v, n) == v \div (2 ^ n)
ShiftLeft(v, n) == v * (2 ^ n)

\* the one bits of b[i] of ck_barrier_internal_log: 0xAAAAAAAA, 0xCCCCCCCC,
\* 0xF0F0F0F0, 0xFF00FF00, 0xFFFF0000 hold bit j exactly when bit i of j is set
LogMask(i) == {j \in 0 .. 31 : (j \div (2 ^ i)) % 2 = 1}

\* (v & b[i]) != 0, as 0 or 1
LogTest(v, i) == IF Bits(v) \cap LogMask(i) # {} THEN 1 ELSE 0

\* ck_barrier_internal_log
ck_barrier_internal_log(v) ==
    LET r0 == LogTest(v, 0)
        r4 == BitOr(r0, ShiftLeft(LogTest(v, 4), 4))
        r3 == BitOr(r4, ShiftLeft(LogTest(v, 3), 3))
        r2 == BitOr(r3, ShiftLeft(LogTest(v, 2), 2))
        r1 == BitOr(r2, ShiftLeft(LogTest(v, 1), 1))
    IN  r1

\* ck_barrier_internal_power_2, for 1 <= v <= 2^30
ck_barrier_internal_power_2(v) ==
    LET v0 == v - 1
        v1 == BitOr(v0, ShiftRight(v0, 1))
        v2 == BitOr(v1, ShiftRight(v1, 2))
        v4 == BitOr(v2, ShiftRight(v2, 4))
        v8 == BitOr(v4, ShiftRight(v4, 8))
        v16 == BitOr(v8, ShiftRight(v8, 16))
    IN  v16 + 1

(***************************************************************************)
(* Centralized barrier                                                     *)
(***************************************************************************)
InitCentralizedWith(n) ==
    /\ alg = "centralized"
    /\ nthr = n
    /\ barrier = [value |-> 0, sense |-> 0]
    /\ state = [t \in Threads |-> [sense |-> 0]]
    /\ local = [t \in Threads |-> [sense |-> 0]]
    /\ pc = [t \in Threads |-> "idle"]
    /\ calls = [t \in Threads |-> 0]
    /\ oob = [t \in Threads |-> FALSE]
    /\ writes = 0
    /\ tnode = <<>>
    /\ groups = <<>>
    /\ flags = <<>>
    /\ rounds = <<>>
    /\ nodes = <<>>

InitCentralized == \E n \in CentralizedThreadCounts : InitCentralizedWith(n)

\* value == n_threads - 1
CentralizedIsLastM(value, n_threads) == value = n_threads - 2
CentralizedIsLast(value, n_threads) == value = n_threads - 1

\* sense = state->sense = ~state->sense; value = ck_pr_faa_uint(&barrier->value, 1);
\* and the branch on value
CentralizedFaa(t) ==
    /\ alg = "centralized"
    /\ t \in Threads
    /\ pc[t] = "idle"
    /\ calls[t] < MaxEpisodes
    /\ calls' = [calls EXCEPT ![t] = @ + 1]
    /\ state' = [state EXCEPT ![t].sense = Not(@)]
    /\ local' = [local EXCEPT ![t].sense = Not(state[t].sense)]
    /\ barrier' = [barrier EXCEPT !.value = @ + 1]
    /\ pc' = [pc EXCEPT ![t] =
                IF CentralizedIsLast(barrier.value, nthr) THEN "reset" ELSE "spin"]
    /\ UNCHANGED <<config, groups, flags, rounds, nodes, writes, oob>>

\* ck_pr_store_uint(&barrier->value, 0);
CentralizedResetM(t) ==
    /\ alg = "centralized"
    /\ t \in Threads
    /\ pc[t] = "reset"
    /\ pc' = [pc EXCEPT ![t] = "release"]
    /\ UNCHANGED <<config, barrier, groups, flags, rounds, nodes, state, local, calls, writes, oob>>
CentralizedReset(t) ==
    /\ alg = "centralized"
    /\ t \in Threads
    /\ pc[t] = "reset"
    /\ barrier' = [barrier EXCEPT !.value = 0]
    /\ pc' = [pc EXCEPT ![t] = "release"]
    /\ UNCHANGED <<config, groups, flags, rounds, nodes, state, local, calls, writes, oob>>

\* ck_pr_store_uint(&barrier->sense, sense); return;
CentralizedRelease(t) ==
    /\ alg = "centralized"
    /\ t \in Threads
    /\ pc[t] = "release"
    /\ barrier' = [barrier EXCEPT !.sense = local[t].sense]
    /\ writes' = writes + 1
    /\ pc' = [pc EXCEPT ![t] = "idle"]
    /\ UNCHANGED <<config, groups, flags, rounds, nodes, state, local, calls, oob>>

\* while (sense != ck_pr_load_uint(&barrier->sense)) ck_pr_stall(); return;
CentralizedSpin(t) ==
    /\ alg = "centralized"
    /\ t \in Threads
    /\ pc[t] = "spin"
    /\ IF local[t].sense # barrier.sense
         THEN pc' = pc
         ELSE pc' = [pc EXCEPT ![t] = "idle"]
    /\ UNCHANGED <<config, barrier, groups, flags, rounds, nodes, state, local, calls, writes, oob>>

NextCentralized ==
    \/ \E t \in ThreadIds : CentralizedFaa(t)
    \/ \E t \in ThreadIds : CentralizedReset(t)
    \/ \E t \in ThreadIds : CentralizedRelease(t)
    \/ \E t \in ThreadIds : CentralizedSpin(t)

SpecCentralized == InitCentralized /\ [][NextCentralized]_vars

(***************************************************************************)
(* C1.  Centralized barrier, arrival completeness: no thread has returned  *)
(* from its e-th call before every thread has performed the fetch-and-add  *)
(* of its e-th call (calls[u] counts the fetch-and-adds of u).             *)
(***************************************************************************)
CentralizedArrivalComplete ==
    alg = "centralized" =>
        \A t \in Threads : \A u \in Threads : Returned(t) <= calls[u]

\* a thread has left its second episode while another is still inside it
CentralizedArrivalWitness ==
    /\ alg = "centralized"
    /\ nthr >= 2
    /\ \E t \in Threads : \E u \in Threads :
          /\ Returned(t) = 2
          /\ pc[u] = "spin"
          /\ calls[u] = 2

(***************************************************************************)
(* Combining tree barrier                                                  *)
(***************************************************************************)
\* the null pointer, as a group index that names no group
NULL == -1

\* ck_barrier_combining_init: the seed is group 0 and root->root refers to it
CombiningInit ==
    0 :> [k |-> 0, count |-> 0, sense |-> 0,
          parent |-> NULL, lchild |-> NULL, rchild |-> NULL]

\* *child = tnode; tnode->parent = parent; ++parent->k;
CombiningInsertM(gs, parent, tn, child) ==
    [gs EXCEPT ![parent][child] = tn,
               ![tn].parent = parent]
CombiningInsert(gs, parent, tn, child) ==
    [gs EXCEPT ![parent][child] = tn,
               ![tn].parent = parent,
               ![parent].k = @ + 1]

\* ck_barrier_combining_try_insert: its return value, and the tree it leaves
CombiningTryInsertOk(gs, parent) ==
    gs[parent].lchild = NULL \/ gs[parent].rchild = NULL

CombiningTryInsertM(gs, parent, tn) ==
    IF gs[parent].rchild = NULL THEN CombiningInsert(gs, parent, tn, "rchild")
    ELSE IF gs[parent].lchild = NULL THEN CombiningInsert(gs, parent, tn, "lchild")
    ELSE gs
CombiningTryInsert(gs, parent, tn) ==
    IF gs[parent].lchild = NULL THEN CombiningInsert(gs, parent, tn, "lchild")
    ELSE IF gs[parent].rchild = NULL THEN CombiningInsert(gs, parent, tn, "rchild")
    ELSE gs

\* the while loop of ck_barrier_combining_group_init over the queue
RECURSIVE CombiningLevelOrder(_, _, _)
CombiningLevelOrder(gs, queue, tn) ==
    IF queue = <<>> THEN gs
    ELSE LET node == Head(queue) IN
         IF CombiningTryInsertOk(gs, node)
           THEN CombiningTryInsert(gs, node, tn)
           ELSE CombiningLevelOrder(gs,
                    Tail(queue) \o <<gs[node].lchild, gs[node].rchild>>, tn)

\* ck_barrier_combining_group_init(root, tnode, nthr), run under root->mutex.
\* tnode->parent is not written before the insertion; the insertion always
\* happens (a finite tree has a free slot), so it is never read unwritten.
CombiningGroupInit(gs, tn, n) ==
    CombiningLevelOrder(
        gs @@ (tn :> [k |-> n, count |-> 0, sense |-> 0,
                      parent |-> NULL, lchild |-> NULL, rchild |-> NULL]),
        <<0>>, tn)

\* group_init for groups 1 .. Len(sizes), in that order
RECURSIVE CombiningBuild(_, _, _)
CombiningBuild(gs, sizes, i) ==
    IF i > Len(sizes) THEN gs
    ELSE CombiningBuild(CombiningGroupInit(gs, i, sizes[i]), sizes, i + 1)

RECURSIVE SumSeq(_)
SumSeq(q) == IF q = <<>> THEN 0 ELSE Head(q) + SumSeq(Tail(q))

\* the group of the t-th thread when the groups' threads are numbered in a row
RECURSIVE HomeGroup(_, _, _)
HomeGroup(sizes, t, g) ==
    IF t < sizes[g] THEN g ELSE HomeGroup(sizes, t - sizes[g], g + 1)

\* the registered thread counts explored: one group, or three groups (so that
\* group 1 has its own threads and group 3 as a child)
CombiningSizes(max) ==
    {q \in UNION {[1 .. g -> 1 .. max] : g \in {1, 3}} : SumSeq(q) <= max}

InitCombiningWith(sizes) ==
    /\ alg = "combining"
    /\ nthr = SumSeq(sizes)
    /\ groups = CombiningBuild(CombiningInit, sizes, 1)
    /\ tnode = [t \in 0 .. (SumSeq(sizes) - 1) |-> HomeGroup(sizes, t, 1)]
    /\ state = [t \in Threads |-> [sense |-> AllOnes]]
    /\ local = [t \in Threads |-> [sense |-> 0, tnode |-> NULL, stack |-> <<>>]]
    /\ pc = [t \in Threads |-> "idle"]
    /\ calls = [t \in Threads |-> 0]
    /\ oob = [t \in Threads |-> FALSE]
    /\ writes = [g \in 0 .. Len(sizes) |-> 0]
    /\ barrier = <<>>
    /\ flags = <<>>
    /\ rounds = <<>>
    /\ nodes = <<>>

InitCombining ==
    \E sizes \in CombiningSizes(MaxCombiningThreads) : InitCombiningWith(sizes)

\* ck_pr_faa_uint(&tnode->count, 1) == tnode->k - 1
CombiningIsLastM(count, k) == count = k - 2
CombiningIsLast(count, k) == count = k - 1

\* the fetch-and-add of ck_barrier_combining_aux on group g and its branches:
\* recurse into the parent, go on to the reset (no parent), or spin
CombiningArrive(t, g, sense, stack) ==
    /\ groups' = [groups EXCEPT ![g].count = @ + 1]
    /\ IF CombiningIsLast(groups[g].count, groups[g].k)
         THEN IF groups[g].parent # NULL
                THEN /\ local' = [local EXCEPT ![t] =
                            [sense |-> sense, tnode |-> groups[g].parent,
                             stack |-> <<g>> \o stack]]
                     /\ pc' = [pc EXCEPT ![t] = "faa"]
                ELSE /\ local' = [local EXCEPT ![t] =
                            [sense |-> sense, tnode |-> g, stack |-> stack]]
                     /\ pc' = [pc EXCEPT ![t] = "reset"]
         ELSE /\ local' = [local EXCEPT ![t] =
                     [sense |-> sense, tnode |-> g, stack |-> stack]]
              /\ pc' = [pc EXCEPT ![t] = "spin"]

\* ck_barrier_combining calls ck_barrier_combining_aux(barrier, tnode, state->sense)
CombiningCall(t) ==
    /\ alg = "combining"
    /\ t \in Threads
    /\ pc[t] = "idle"
    /\ calls[t] < MaxEpisodes
    /\ calls' = [calls EXCEPT ![t] = @ + 1]
    /\ CombiningArrive(t, tnode[t], state[t].sense, <<>>)
    /\ UNCHANGED <<config, barrier, flags, rounds, nodes, state, writes, oob>>

\* the recursive call ck_barrier_combining_aux(barrier, tnode->parent, sense)
CombiningFaa(t) ==
    /\ alg = "combining"
    /\ t \in Threads
    /\ pc[t] = "faa"
    /\ CombiningArrive(t, local[t].tnode, local[t].sense, local[t].stack)
    /\ UNCHANGED <<config, barrier, flags, rounds, nodes, state, calls, writes, oob>>

\* ck_pr_store_uint(&tnode->count, 0);
CombiningResetM(t) ==
    /\ alg = "combining"
    /\ t \in Threads
    /\ pc[t] = "reset"
    /\ pc' = [pc EXCEPT ![t] = "flip"]
    /\ UNCHANGED <<config, barrier, groups, flags, rounds, nodes, state, local, calls, writes, oob>>
CombiningReset(t) ==
    /\ alg = "combining"
    /\ t \in Threads
    /\ pc[t] = "reset"
    /\ groups' = [groups EXCEPT ![local[t].tnode].count = 0]
    /\ pc' = [pc EXCEPT ![t] = "flip"]
    /\ UNCHANGED <<config, barrier, flags, rounds, nodes, state, local, calls, writes, oob>>

\* ck_barrier_combining_aux returns: to the caller's frame of the recursion,
\* which goes on to its reset, or to ck_barrier_combining, which sets
\* state->sense = ~state->sense and returns
CombiningReturn(t) ==
    IF local[t].stack # <<>>
      THEN /\ local' = [local EXCEPT ![t].tnode = Head(local[t].stack),
                                     ![t].stack = Tail(local[t].stack)]
           /\ pc' = [pc EXCEPT ![t] = "reset"]
           /\ state' = state
      ELSE /\ local' = local
           /\ pc' = [pc EXCEPT ![t] = "idle"]
           /\ state' = [state EXCEPT ![t].sense = Not(@)]

\* ck_pr_store_uint(&tnode->sense, ~tnode->sense); return;
CombiningFlip(t) ==
    /\ alg = "combining"
    /\ t \in Threads
    /\ pc[t] = "flip"
    /\ groups' = [groups EXCEPT ![local[t].tnode].sense = Not(@)]
    /\ writes' = [writes EXCEPT ![local[t].tnode] = @ + 1]
    /\ CombiningReturn(t)
    /\ UNCHANGED <<config, barrier, flags, rounds, nodes, calls, oob>>

\* while (sense != ck_pr_load_uint(&tnode->sense)) ck_pr_stall(); return;
CombiningSpin(t) ==
    /\ alg = "combining"
    /\ t \in Threads
    /\ pc[t] = "spin"
    /\ IF local[t].sense # groups[local[t].tnode].sense
         THEN UNCHANGED <<pc, local, state>>
         ELSE CombiningReturn(t)
    /\ UNCHANGED <<config, barrier, groups, flags, rounds, nodes, calls, writes, oob>>

NextCombining ==
    \/ \E t \in ThreadIds : CombiningCall(t)
    \/ \E t \in ThreadIds : CombiningFaa(t)
    \/ \E t \in ThreadIds : CombiningReset(t)
    \/ \E t \in ThreadIds : CombiningFlip(t)
    \/ \E t \in ThreadIds : CombiningSpin(t)

SpecCombining == InitCombining /\ [][NextCombining]_vars

(***************************************************************************)
(* C2.  Combining-tree barrier, arrival completeness: no thread has        *)
(* returned from its e-th ck_barrier_combining call before every thread of *)
(* every group has performed the fetch-and-add of its e-th call on its     *)
(* home group's count (calls[u] counts those fetch-and-adds).              *)
(***************************************************************************)
CombiningArrivalComplete ==
    alg = "combining" =>
        \A t \in Threads : \A u \in Threads : Returned(t) <= calls[u]

\* three groups: a thread of the child group 3 has left its second episode
\* while a thread of group 2 is still inside it
CombiningArrivalWitness ==
    /\ alg = "combining"
    /\ DOMAIN groups = 0 .. 3
    /\ groups[1].lchild = 3
    /\ \E t \in Threads : \E u \in Threads :
          /\ tnode[t] = 3 /\ Returned(t) = 2
          /\ tnode[u] = 2 /\ calls[u] = 2 /\ pc[u] # "idle"

(***************************************************************************)
(* Combining tree construction: ck_barrier_combining_init, then concurrent *)
(* ck_barrier_combining_group_init calls.  Caller t registers group t + 1  *)
(* with local[t].nthr threads.  barrier is struct ck_barrier_combining     *)
(* (root, mutex); writes lists the groups in the order they were inserted. *)
(***************************************************************************)
\* ck_barrier_combining_queue_enqueue / _dequeue: a first-in first-out queue
\* of group references
ck_barrier_combining_queue_enqueue(queue, node_value) == Append(queue, node_value)
ck_barrier_combining_queue_dequeue(queue) == Head(queue)

InitCombiningBuildWith(sizes) ==
    /\ alg = "combining_init"
    /\ nthr = Len(sizes)
    /\ groups = CombiningInit
    /\ barrier = [root |-> 0, mutex |-> FALSE]
    /\ tnode = [t \in 0 .. (Len(sizes) - 1) |-> t + 1]
    /\ local = [t \in 0 .. (Len(sizes) - 1) |->
                   [nthr |-> sizes[t + 1], queue |-> <<>>, node |-> NULL]]
    /\ pc = [t \in Threads |-> "idle"]
    /\ calls = [t \in Threads |-> 0]
    /\ oob = [t \in Threads |-> FALSE]
    /\ writes = <<>>
    /\ state = <<>>
    /\ flags = <<>>
    /\ rounds = <<>>
    /\ nodes = <<>>

InitCombiningBuild ==
    \E g \in 1 .. MaxCombiningGroups :
        \E sizes \in [1 .. g -> 1 .. MaxGroupThreads] : InitCombiningBuildWith(sizes)

\* queue.head = queue.tail = NULL; tnode->k = nthr; tnode->count = 0;
\* tnode->sense = 0; tnode->lchild = tnode->rchild = NULL;
CombiningGroupInitCall(t) ==
    /\ alg = "combining_init"
    /\ t \in Threads
    /\ pc[t] = "idle"
    /\ calls[t] = 0
    /\ calls' = [calls EXCEPT ![t] = 1]
    /\ groups' = groups @@ (tnode[t] :>
                     [k |-> local[t].nthr, count |-> 0, sense |-> 0,
                      parent |-> NULL, lchild |-> NULL, rchild |-> NULL])
    /\ local' = [local EXCEPT ![t].queue = <<>>]
    /\ pc' = [pc EXCEPT ![t] = "lock"]
    /\ UNCHANGED <<config, barrier, flags, rounds, nodes, state, writes, oob>>

\* ck_spinlock_fas_lock(&root->mutex) succeeds;
\* ck_barrier_combining_queue_enqueue(&queue, root->root);
CombiningLock(t) ==
    /\ alg = "combining_init"
    /\ t \in Threads
    /\ pc[t] = "lock"
    /\ barrier.mutex = FALSE
    /\ barrier' = [barrier EXCEPT !.mutex = TRUE]
    /\ local' = [local EXCEPT ![t].queue =
                    ck_barrier_combining_queue_enqueue(<<>>, barrier.root)]
    /\ pc' = [pc EXCEPT ![t] = "traverse"]
    /\ UNCHANGED <<config, groups, flags, rounds, nodes, state, calls, writes, oob>>

\* one iteration of while (queue.head != NULL): dequeue, try_insert, and
\* either goto leave or enqueue the node's two children
CombiningTraverse(t) ==
    /\ alg = "combining_init"
    /\ t \in Threads
    /\ pc[t] = "traverse"
    /\ IF local[t].queue = <<>>
         THEN /\ pc' = [pc EXCEPT ![t] = "unlock"]
              /\ UNCHANGED <<groups, local, writes>>
         ELSE LET node == ck_barrier_combining_queue_dequeue(local[t].queue) IN
              IF CombiningTryInsertOk(groups, node)
                THEN /\ groups' = CombiningTryInsert(groups, node, tnode[t])
                     /\ writes' = Append(writes, tnode[t])
                     /\ local' = [local EXCEPT ![t].node = node]
                     /\ pc' = [pc EXCEPT ![t] = "unlock"]
                ELSE /\ local' = [local EXCEPT
                            ![t].node = node,
                            ![t].queue =
                                ck_barrier_combining_queue_enqueue(
                                    ck_barrier_combining_queue_enqueue(
                                        Tail(local[t].queue), groups[node].lchild),
                                    groups[node].rchild)]
                     /\ UNCHANGED <<groups, writes, pc>>
    /\ UNCHANGED <<config, barrier, flags, rounds, nodes, state, calls, oob>>

\* leave: ck_spinlock_fas_unlock(&root->mutex); return;
CombiningUnlock(t) ==
    /\ alg = "combining_init"
    /\ t \in Threads
    /\ pc[t] = "unlock"
    /\ barrier' = [barrier EXCEPT !.mutex = FALSE]
    /\ pc' = [pc EXCEPT ![t] = "done"]
    /\ UNCHANGED <<config, groups, flags, rounds, nodes, state, local, calls, writes, oob>>

NextCombiningBuild ==
    \/ \E t \in ThreadIds : CombiningGroupInitCall(t)
    \/ \E t \in ThreadIds : CombiningLock(t)
    \/ \E t \in ThreadIds : CombiningTraverse(t)
    \/ \E t \in ThreadIds : CombiningUnlock(t)

SpecCombiningBuild == InitCombiningBuild /\ [][NextCombiningBuild]_vars

(***************************************************************************)
(* Dissemination barrier                                                   *)
(***************************************************************************)
\* size = ck_barrier_internal_log(ck_barrier_internal_power_2(nthr)), the
\* number of rounds; ck_barrier_dissemination_size is twice that
LogPower2 ==
    [n \in 1 .. (MaxThreads + 1) |->
        ck_barrier_internal_log(ck_barrier_internal_power_2(n))]
DisseminationRounds(n) == LogPower2[n]
ck_barrier_dissemination_size(n) == DisseminationRounds(n) * 2

\* the partner j of thread i for the round whose offset is 1 << k
DisseminationPartnerM(n, i, offset) ==
    IF BitAnd(n, n - 1) = 0 THEN BitAnd(i + offset, n - 1) ELSE i
DisseminationPartner(n, i, offset) ==
    IF BitAnd(n, n - 1) = 0 THEN BitAnd(i + offset, n - 1) ELSE (i + offset) % n

\* ck_barrier_dissemination_init: flags[i][parity][k]; pflag, a pointer to
\* barrier[j].flags[parity][k].tflag, is kept as j
ck_barrier_dissemination_init(n) ==
    [i \in 0 .. (n - 1) |->
        [p \in {0, 1} |->
            [k \in 0 .. (DisseminationRounds(n) - 1) |->
                [tflag |-> 0, pflag |-> DisseminationPartner(n, i, ShiftLeft(1, k))]]]]

\* after ck_barrier_dissemination_init and one ck_barrier_dissemination_state_init
\* per thread, the first nthr values of ck_barrier_dissemination_tid
InitDisseminationWith(n) ==
    /\ alg = "dissemination"
    /\ nthr = n
    /\ flags = ck_barrier_dissemination_init(nthr)
    /\ state = [t \in Threads |-> [parity |-> 0, sense |-> AllOnes, tid |-> t]]
    /\ local = [t \in Threads |-> [i |-> 0, size |-> 0]]
    /\ pc = [t \in Threads |-> "idle"]
    /\ calls = [t \in Threads |-> 0]
    /\ oob = [t \in Threads |-> FALSE]
    /\ writes = 0
    /\ tnode = <<>>
    /\ barrier = <<>>
    /\ groups = <<>>
    /\ rounds = <<>>
    /\ nodes = <<>>

InitDissemination ==
    \E n \in DisseminationThreadCounts : InitDisseminationWith(n)

\* ck_pr_store_uint(barrier[state->tid].flags[state->parity][i].pflag, state->sense);
DisseminationStore(t, i) ==
    LET j == flags[state[t].tid][state[t].parity][i].pflag IN
    flags' = [flags EXCEPT ![j][state[t].parity][i].tflag = state[t].sense]

\* if (state->parity == 1) state->sense = ~state->sense;
\* state->parity = 1 - state->parity; return;
DisseminationFinishM(t) ==
    /\ state' = [state EXCEPT ![t].sense = Not(@), ![t].parity = 1 - @]
    /\ pc' = [pc EXCEPT ![t] = "idle"]
DisseminationFinish(t) ==
    /\ state' = [state EXCEPT
                    ![t].sense = IF state[t].parity = 1 THEN Not(@) ELSE @,
                    ![t].parity = 1 - @]
    /\ pc' = [pc EXCEPT ![t] = "idle"]

\* the call: size is computed from ck_barrier_dissemination_nthr, then the
\* loop runs up to the round-0 store (no round at all when size is 0)
DisseminationCall(t) ==
    /\ alg = "dissemination"
    /\ t \in Threads
    /\ pc[t] = "idle"
    /\ calls[t] < MaxEpisodes
    /\ calls' = [calls EXCEPT ![t] = @ + 1]
    /\ LET size == DisseminationRounds(nthr) IN
       /\ local' = [local EXCEPT ![t] = [i |-> 0, size |-> size]]
       /\ IF 0 < size
            THEN /\ DisseminationStore(t, 0)
                 /\ pc' = [pc EXCEPT ![t] = "wait"]
                 /\ state' = state
            ELSE /\ DisseminationFinish(t)
                 /\ flags' = flags
    /\ UNCHANGED <<config, barrier, groups, rounds, nodes, writes, oob>>

\* the store of a later round
DisseminationSignal(t) ==
    /\ alg = "dissemination"
    /\ t \in Threads
    /\ pc[t] = "signal"
    /\ DisseminationStore(t, local[t].i)
    /\ pc' = [pc EXCEPT ![t] = "wait"]
    /\ UNCHANGED <<config, barrier, groups, rounds, nodes, state, local, calls, writes, oob>>

\* while (ck_pr_load_uint(&barrier[state->tid].flags[state->parity][i].tflag)
\*        != state->sense) ck_pr_stall();   and the loop's ++i, i < size
DisseminationWait(t) ==
    /\ alg = "dissemination"
    /\ t \in Threads
    /\ pc[t] = "wait"
    /\ IF flags[state[t].tid][state[t].parity][local[t].i].tflag # state[t].sense
         THEN UNCHANGED <<pc, local, state>>
         ELSE IF local[t].i + 1 < local[t].size
                THEN /\ local' = [local EXCEPT ![t].i = @ + 1]
                     /\ pc' = [pc EXCEPT ![t] = "signal"]
                     /\ state' = state
                ELSE /\ DisseminationFinish(t)
                     /\ local' = local
    /\ UNCHANGED <<config, barrier, groups, flags, rounds, nodes, calls, writes, oob>>

NextDissemination ==
    \/ \E t \in ThreadIds : DisseminationCall(t)
    \/ \E t \in ThreadIds : DisseminationSignal(t)
    \/ \E t \in ThreadIds : DisseminationWait(t)

SpecDissemination == InitDissemination /\ [][NextDissemination]_vars

(***************************************************************************)
(* C3.  Dissemination barrier, arrival completeness: no thread has         *)
(* returned from its e-th ck_barrier_dissemination call before every       *)
(* thread has performed the round-0 store of its e-th call (calls[u]       *)
(* counts those stores), for power-of-two and other thread counts.         *)
(***************************************************************************)
DisseminationArrivalComplete ==
    alg = "dissemination" =>
        \A t \in Threads : \A u \in Threads : Returned(t) <= calls[u]

\* modulo path: with 3 threads, one has left its second episode while
\* another is still in a round of it
DisseminationArrivalWitness ==
    /\ alg = "dissemination"
    /\ nthr = 3
    /\ \E t \in Threads : \E u \in Threads :
          /\ Returned(t) = 2
          /\ calls[u] = 2 /\ pc[u] = "wait" /\ local[u].i = 1

(***************************************************************************)
(* Tournament barrier                                                      *)
(***************************************************************************)
ck_barrier_tournament_size(n) == LogPower2[n] + 1

\* the role round_init leaves in rounds[i][k], k >= 1; "UNSET" when neither
\* if statement assigns it (the caller's memory is left as it was)
TournamentRole(n, i, k) ==
    LET twok == ShiftLeft(1, k)
        twokm1 == ShiftLeft(1, k - 1)
        imod2k == BitAnd(i, twok - 1)
        first == IF imod2k = 0
                   THEN IF (i + twokm1 < n) /\ (twok < n) THEN "WINNER"
                        ELSE IF i + twokm1 >= n THEN "BYE"
                        ELSE "UNSET"
                   ELSE "UNSET"
    IN  IF imod2k = twokm1 THEN "LOSER"
        ELSE IF (i = 0) /\ (twok >= n) THEN "CHAMPION"
        ELSE first

\* the opponent round_init stores: a pointer to rounds[j][k].flag, kept as j
\* (NULL where round_init stores none)
TournamentOpponentM(role, i, twokm1) ==
    IF role = "LOSER" THEN i - twokm1
    ELSE IF role = "WINNER" THEN i + twokm1
    ELSE NULL
TournamentOpponent(role, i, twokm1) ==
    IF role = "LOSER" THEN i - twokm1
    ELSE IF role = "WINNER" \/ role = "CHAMPION" THEN i + twokm1
    ELSE NULL

\* ck_barrier_tournament_round_init
ck_barrier_tournament_round_init(n) ==
    [i \in 0 .. (n - 1) |->
        [k \in 0 .. (ck_barrier_tournament_size(n) - 1) |->
            IF k = 0
              THEN [flag |-> 0, role |-> "DROPOUT", opponent |-> NULL]
              ELSE [flag |-> 0,
                    role |-> TournamentRole(n, i, k),
                    opponent |-> TournamentOpponent(TournamentRole(n, i, k),
                                                    i, ShiftLeft(1, k - 1))]]]

\* after ck_barrier_tournament_round_init and one
\* ck_barrier_tournament_state_init per thread
InitTournamentWith(n) ==
    /\ alg = "tournament"
    /\ nthr = n
    /\ rounds = ck_barrier_tournament_round_init(nthr)
    /\ state = [t \in Threads |-> [sense |-> AllOnes, vpid |-> t]]
    /\ local = [t \in Threads |-> [round |-> 0]]
    /\ pc = [t \in Threads |-> "idle"]
    /\ calls = [t \in Threads |-> 0]
    /\ oob = [t \in Threads |-> FALSE]
    /\ writes = 0
    /\ tnode = <<>>
    /\ barrier = <<>>
    /\ groups = <<>>
    /\ flags = <<>>
    /\ nodes = <<>>

InitTournament == \E n \in TournamentThreadCounts : InitTournamentWith(n)

\* rounds[state->vpid][round].role as the switch reads it; "INVALID" for a
\* slot outside the row or a role round_init never assigned
TournamentRoleRead(t, round) ==
    IF round \in DOMAIN rounds[state[t].vpid]
         /\ rounds[state[t].vpid][round].role # "UNSET"
      THEN rounds[state[t].vpid][round].role
      ELSE "INVALID"

\* ck_pr_load_uint(&rounds[state->vpid][round].flag) != state->sense
TournamentFlagUnsetM(t, round) ==
    rounds[state[t].vpid][round].flag = state[t].sense
TournamentFlagUnset(t, round) ==
    rounds[state[t].vpid][round].flag # state[t].sense

\* ck_pr_store_uint(rounds[state->vpid][round].opponent, state->sense);
TournamentStore(t, round) ==
    rounds' = [rounds EXCEPT
                  ![rounds[state[t].vpid][round].opponent][round].flag = state[t].sense]

\* a read of a slot that holds no defined role: the behaviour is undefined
TournamentInvalid(t) ==
    /\ oob' = [oob EXCEPT ![t] = TRUE]
    /\ pc' = [pc EXCEPT ![t] = "undefined"]
    /\ UNCHANGED <<rounds, local, state>>

\* one iteration of the arrival loop, for (;; ++round), at `round`
TournamentArriveAt(t, round) ==
    LET role == TournamentRoleRead(t, round) IN
    \/ /\ role \in {"BYE", "DROPOUT"}
       /\ local' = [local EXCEPT ![t].round = round + 1]
       /\ pc' = [pc EXCEPT ![t] = "arrive"]
       /\ UNCHANGED <<rounds, state, oob>>
    \/ /\ role = "WINNER"
       /\ local' = [local EXCEPT ![t].round =
                       IF TournamentFlagUnset(t, round) THEN round ELSE round + 1]
       /\ pc' = [pc EXCEPT ![t] = "arrive"]
       /\ UNCHANGED <<rounds, state, oob>>
    \/ /\ role = "CHAMPION"
       /\ local' = [local EXCEPT ![t].round = round]
       /\ pc' = [pc EXCEPT ![t] =
                    IF TournamentFlagUnset(t, round) THEN "arrive" ELSE "champion"]
       /\ UNCHANGED <<rounds, state, oob>>
    \/ /\ role = "LOSER"
       /\ TournamentStore(t, round)
       /\ local' = [local EXCEPT ![t].round = round]
       /\ pc' = [pc EXCEPT ![t] = "loser"]
       /\ UNCHANGED <<state, oob>>
    \/ /\ role = "INVALID"
       /\ TournamentInvalid(t)

\* the call: int round = 1; and the first iteration of the arrival loop
TournamentCall(t) ==
    /\ alg = "tournament"
    /\ t \in Threads
    /\ pc[t] = "idle"
    /\ calls[t] < MaxEpisodes
    /\ calls' = [calls EXCEPT ![t] = @ + 1]
    /\ TournamentArriveAt(t, 1)
    /\ UNCHANGED <<config, barrier, groups, flags, nodes, writes>>

\* a later iteration of the arrival loop
TournamentArrive(t) ==
    /\ alg = "tournament"
    /\ t \in Threads
    /\ pc[t] = "arrive"
    /\ TournamentArriveAt(t, local[t].round)
    /\ UNCHANGED <<config, barrier, groups, flags, nodes, calls, writes>>

\* CHAMPION, after its spin: the store to the opponent; goto wakeup (round -= 1)
TournamentChampion(t) ==
    /\ alg = "tournament"
    /\ t \in Threads
    /\ pc[t] = "champion"
    /\ TournamentStore(t, local[t].round)
    /\ local' = [local EXCEPT ![t].round = @ - 1]
    /\ pc' = [pc EXCEPT ![t] = "wakeup"]
    /\ UNCHANGED <<config, barrier, groups, flags, nodes, state, calls, writes, oob>>

\* LOSER, after its store: the spin on its own flag; goto wakeup (round -= 1)
TournamentLoser(t) ==
    /\ alg = "tournament"
    /\ t \in Threads
    /\ pc[t] = "loser"
    /\ IF TournamentFlagUnset(t, local[t].round)
         THEN UNCHANGED <<local, pc>>
         ELSE /\ local' = [local EXCEPT ![t].round = @ - 1]
              /\ pc' = [pc EXCEPT ![t] = "wakeup"]
    /\ UNCHANGED <<config, barrier, groups, flags, rounds, nodes, state, calls, writes, oob>>

\* one iteration of the wakeup loop, for (round -= 1;; --round); at DROPOUT
\* the thread leaves: state->sense = ~state->sense; return;
TournamentWakeup(t) ==
    /\ alg = "tournament"
    /\ t \in Threads
    /\ pc[t] = "wakeup"
    /\ LET round == local[t].round
           role == TournamentRoleRead(t, round) IN
       \/ /\ role \in {"BYE", "CHAMPION", "LOSER"}
          /\ local' = [local EXCEPT ![t].round = round - 1]
          /\ UNCHANGED <<rounds, state, pc, oob>>
       \/ /\ role = "DROPOUT"
          /\ state' = [state EXCEPT ![t].sense = Not(@)]
          /\ pc' = [pc EXCEPT ![t] = "idle"]
          /\ UNCHANGED <<rounds, local, oob>>
       \/ /\ role = "WINNER"
          /\ TournamentStore(t, round)
          /\ local' = [local EXCEPT ![t].round = round - 1]
          /\ UNCHANGED <<state, pc, oob>>
       \/ /\ role = "INVALID"
          /\ TournamentInvalid(t)
    /\ UNCHANGED <<config, barrier, groups, flags, nodes, calls, writes>>

\* A read of an undefined slot yields an arbitrary role, flag and opponent:
\* the thread may then crash, spin for ever on a word nobody writes, store
\* through a wild pointer, or find its way to `leave`.  The model keeps the
\* two outcomes visible to the caller: the call never returns (this step is
\* never taken), or it returns through leave: state->sense = ~state->sense.
TournamentUndefined(t) ==
    /\ alg = "tournament"
    /\ t \in Threads
    /\ pc[t] = "undefined"
    /\ pc' = [pc EXCEPT ![t] = "idle"]
    /\ state' = [state EXCEPT ![t].sense = Not(@)]
    /\ UNCHANGED <<config, barrier, groups, flags, rounds, nodes, local, calls, writes, oob>>

NextTournament ==
    \/ \E t \in ThreadIds : TournamentCall(t)
    \/ \E t \in ThreadIds : TournamentArrive(t)
    \/ \E t \in ThreadIds : TournamentChampion(t)
    \/ \E t \in ThreadIds : TournamentLoser(t)
    \/ \E t \in ThreadIds : TournamentWakeup(t)
    \/ \E t \in ThreadIds : TournamentUndefined(t)

SpecTournament == InitTournament /\ [][NextTournament]_vars

(***************************************************************************)
(* C4.  Tournament barrier, arrival completeness: no thread has returned   *)
(* from its e-th ck_barrier_tournament call before every thread has        *)
(* entered its e-th call, for power-of-two and other thread counts (N >= 2)*)
(***************************************************************************)
TournamentArrivalComplete ==
    (alg = "tournament" /\ nthr >= 2) =>
        \A t \in Threads : \A u \in Threads : Returned(t) <= calls[u]

\* BYE roles: with 5 threads, thread 4 (BYE at rounds 1 and 2) has left its
\* second episode while thread 1 is still inside it
TournamentArrivalWitness ==
    /\ alg = "tournament"
    /\ nthr = 5
    /\ rounds[4][1].role = "BYE"
    /\ Returned(4) = 2
    /\ calls[1] = 2 /\ pc[1] = "loser"

(***************************************************************************)
(* MCS tree barrier                                                        *)
(***************************************************************************)
\* pointers into the node array: &barrier[n].dummy,
\* &barrier[n].childnotready[slot], &barrier[n].parentsense
McsDummy(n) == [field |-> "dummy", node |-> n, slot |-> 0]
McsChildNotReady(n, j) == [field |-> "childnotready", node |-> n, slot |-> j]
McsParentSense(n) == [field |-> "parentsense", node |-> n, slot |-> 0]

\* havechild[j] of node i: ((i << 2) + j < nthr - 1) ? ~0 : 0
McsHaveChildM(n, i, j) == IF ShiftLeft(i, 2) + j < n THEN AllOnes ELSE 0
McsHaveChild(n, i, j) == IF ShiftLeft(i, 2) + j < n - 1 THEN AllOnes ELSE 0

\* ck_barrier_mcs_init; dummy is not written by it and is never read
ck_barrier_mcs_initM(n) ==
    [i \in 0 .. (n - 1) |->
        [havechild |-> [j \in 0 .. 3 |-> McsHaveChild(n, i, j)],
         childnotready |-> [j \in 0 .. 3 |-> McsHaveChild(n, i, j)],
         parent |-> IF i = 0 THEN McsDummy(i)
                    ELSE McsChildNotReady(ShiftRight(i - 1, 2), BitAnd(i - 1, 3)),
         children |-> [c \in 0 .. 1 |->
                          IF ShiftLeft(i, 1) + 2 + c >= n THEN McsDummy(i)
                          ELSE McsParentSense(ShiftLeft(i, 1) + 2 + c)],
         parentsense |-> 0,
         dummy |-> 0]]
ck_barrier_mcs_init(n) ==
    [i \in 0 .. (n - 1) |->
        [havechild |-> [j \in 0 .. 3 |-> McsHaveChild(n, i, j)],
         childnotready |-> [j \in 0 .. 3 |-> McsHaveChild(n, i, j)],
         parent |-> IF i = 0 THEN McsDummy(i)
                    ELSE McsChildNotReady(ShiftRight(i - 1, 2), BitAnd(i - 1, 3)),
         children |-> [c \in 0 .. 1 |->
                          IF ShiftLeft(i, 1) + 1 + c >= n THEN McsDummy(i)
                          ELSE McsParentSense(ShiftLeft(i, 1) + 1 + c)],
         parentsense |-> 0,
         dummy |-> 0]]

\* after ck_barrier_mcs_init and one ck_barrier_mcs_state_init per thread
InitMcsWith(n) ==
    /\ alg = "mcs"
    /\ nthr = n
    /\ nodes = ck_barrier_mcs_init(nthr)
    /\ state = [t \in Threads |-> [sense |-> AllOnes, vpid |-> t]]
    /\ local = [t \in Threads |-> [i |-> 0]]
    /\ pc = [t \in Threads |-> "idle"]
    /\ calls = [t \in Threads |-> 0]
    /\ oob = [t \in Threads |-> FALSE]
    /\ writes = 0
    /\ tnode = <<>>
    /\ barrier = <<>>
    /\ groups = <<>>
    /\ flags = <<>>
    /\ rounds = <<>>

InitMcs == \E n \in McsThreadCounts : InitMcsWith(n)

\* ck_pr_store_uint(ptr, v)
McsStore(ptr, v) ==
    nodes' = IF ptr.field = "dummy" THEN [nodes EXCEPT ![ptr.node].dummy = v]
             ELSE IF ptr.field = "parentsense"
               THEN [nodes EXCEPT ![ptr.node].parentsense = v]
             ELSE [nodes EXCEPT ![ptr.node].childnotready[ptr.slot] = v]

\* one iteration of the loop of ck_barrier_mcs_check_children, at index i:
\* a nonzero word makes it return false, the caller stalls and calls it again
McsChildNotReadyAtM(t, i) == nodes[state[t].vpid].childnotready[i] = 0
McsChildNotReadyAt(t, i) == nodes[state[t].vpid].childnotready[i] # 0

McsCheckAt(t, i) ==
    IF McsChildNotReadyAt(t, i)
      THEN /\ local' = [local EXCEPT ![t].i = 0]
           /\ pc' = [pc EXCEPT ![t] = "check"]
      ELSE IF i + 1 < 4
             THEN /\ local' = [local EXCEPT ![t].i = i + 1]
                  /\ pc' = [pc EXCEPT ![t] = "check"]
             ELSE /\ local' = [local EXCEPT ![t].i = 0]
                  /\ pc' = [pc EXCEPT ![t] = "reinit"]

\* the call, up to the first load of ck_barrier_mcs_check_children
McsCall(t) ==
    /\ alg = "mcs"
    /\ t \in Threads
    /\ pc[t] = "idle"
    /\ calls[t] < MaxEpisodes
    /\ calls' = [calls EXCEPT ![t] = @ + 1]
    /\ McsCheckAt(t, 0)
    /\ UNCHANGED <<config, barrier, groups, flags, rounds, nodes, state, writes, oob>>

\* a later load of ck_barrier_mcs_check_children
McsCheck(t) ==
    /\ alg = "mcs"
    /\ t \in Threads
    /\ pc[t] = "check"
    /\ McsCheckAt(t, local[t].i)
    /\ UNCHANGED <<config, barrier, groups, flags, rounds, nodes, state, calls, writes, oob>>

\* one store of ck_barrier_mcs_reinitialize_children:
\* ck_pr_store_uint(&node->childnotready[i], node->havechild[i]);
McsReinitM(t) ==
    /\ alg = "mcs"
    /\ t \in Threads
    /\ pc[t] = "reinit"
    /\ nodes' = nodes
    /\ IF local[t].i + 1 < 4
         THEN /\ local' = [local EXCEPT ![t].i = @ + 1]
              /\ pc' = pc
         ELSE /\ local' = [local EXCEPT ![t].i = 0]
              /\ pc' = [pc EXCEPT ![t] = "notify"]
    /\ UNCHANGED <<config, barrier, groups, flags, rounds, state, calls, writes, oob>>
McsReinit(t) ==
    /\ alg = "mcs"
    /\ t \in Threads
    /\ pc[t] = "reinit"
    /\ McsStore(McsChildNotReady(state[t].vpid, local[t].i),
                nodes[state[t].vpid].havechild[local[t].i])
    /\ IF local[t].i + 1 < 4
         THEN /\ local' = [local EXCEPT ![t].i = @ + 1]
              /\ pc' = pc
         ELSE /\ local' = [local EXCEPT ![t].i = 0]
              /\ pc' = [pc EXCEPT ![t] = "notify"]
    /\ UNCHANGED <<config, barrier, groups, flags, rounds, state, calls, writes, oob>>

\* ck_pr_store_uint(barrier[state->vpid].parent, 0); if (state->vpid != 0) ...
McsNotify(t) ==
    /\ alg = "mcs"
    /\ t \in Threads
    /\ pc[t] = "notify"
    /\ McsStore(nodes[state[t].vpid].parent, 0)
    /\ pc' = [pc EXCEPT ![t] = IF state[t].vpid # 0 THEN "spin" ELSE "release0"]
    /\ UNCHANGED <<config, barrier, groups, flags, rounds, state, local, calls, writes, oob>>

\* while (ck_pr_load_uint(&barrier[state->vpid].parentsense) != state->sense)
\*     ck_pr_stall();
McsSpin(t) ==
    /\ alg = "mcs"
    /\ t \in Threads
    /\ pc[t] = "spin"
    /\ IF nodes[state[t].vpid].parentsense # state[t].sense
         THEN pc' = pc
         ELSE pc' = [pc EXCEPT ![t] = "release0"]
    /\ UNCHANGED <<config, barrier, groups, flags, rounds, nodes, state, local, calls, writes, oob>>

\* ck_pr_store_uint(barrier[state->vpid].children[0], state->sense);
McsRelease0(t) ==
    /\ alg = "mcs"
    /\ t \in Threads
    /\ pc[t] = "release0"
    /\ McsStore(nodes[state[t].vpid].children[0], state[t].sense)
    /\ pc' = [pc EXCEPT ![t] = "release1"]
    /\ UNCHANGED <<config, barrier, groups, flags, rounds, state, local, calls, writes, oob>>

\* ck_pr_store_uint(barrier[state->vpid].children[1], state->sense);
\* state->sense = ~state->sense; return;
McsRelease1(t) ==
    /\ alg = "mcs"
    /\ t \in Threads
    /\ pc[t] = "release1"
    /\ McsStore(nodes[state[t].vpid].children[1], state[t].sense)
    /\ state' = [state EXCEPT ![t].sense = Not(@)]
    /\ pc' = [pc EXCEPT ![t] = "idle"]
    /\ UNCHANGED <<config, barrier, groups, flags, rounds, local, calls, writes, oob>>

NextMcs ==
    \/ \E t \in ThreadIds : McsCall(t)
    \/ \E t \in ThreadIds : McsCheck(t)
    \/ \E t \in ThreadIds : McsReinit(t)
    \/ \E t \in ThreadIds : McsNotify(t)
    \/ \E t \in ThreadIds : McsSpin(t)
    \/ \E t \in ThreadIds : McsRelease0(t)
    \/ \E t \in ThreadIds : McsRelease1(t)

SpecMcs == InitMcs /\ [][NextMcs]_vars

(***************************************************************************)
(* ck_barrier_mcs_init statement by statement, run by one caller (thread   *)
(* 0 of pc and local) for nthr nodes.  A node appears in nodes when the    *)
(* outer loop reaches it; a field appears when it is first written (dummy, *)
(* which init never writes, is carried from the start).                    *)
(***************************************************************************)
InitMcsSetupWith(n) ==
    /\ alg = "mcs_init"
    /\ nthr = n
    /\ nodes = <<>>
    /\ local = [t \in {0} |-> [i |-> 0, j |-> 0]]
    /\ pc = [t \in {0} |-> IF n > 0 THEN "havechild" ELSE "done"]
    /\ calls = [t \in {0} |-> 1]
    /\ oob = [t \in {0} |-> FALSE]
    /\ state = <<>>
    /\ writes = 0
    /\ tnode = <<>>
    /\ barrier = <<>>
    /\ groups = <<>>
    /\ flags = <<>>
    /\ rounds = <<>>

InitMcsSetup == \E n \in 1 .. MaxMcsInitThreads : InitMcsSetupWith(n)

\* one iteration of for (j = 0; j < 4; ++j): havechild[j], childnotready[j]
McsInitHaveChild ==
    /\ alg = "mcs_init"
    /\ pc[0] = "havechild"
    /\ LET i == local[0].i
           j == local[0].j
           node == IF i \in DOMAIN nodes THEN nodes[i]
                   ELSE [havechild |-> <<>>, childnotready |-> <<>>, dummy |-> 0]
           hc == McsHaveChild(nthr, i, j)
       IN  nodes' = (i :> [node EXCEPT
                              !.havechild = (j :> hc) @@ @,
                              !.childnotready = (j :> hc) @@ @]) @@ nodes
    /\ IF local[0].j + 1 < 4
         THEN /\ local' = [local EXCEPT ![0].j = @ + 1]
              /\ pc' = pc
         ELSE /\ local' = [local EXCEPT ![0].j = 0]
              /\ pc' = [pc EXCEPT ![0] = "links"]
    /\ UNCHANGED <<config, barrier, groups, flags, rounds, state, calls, writes, oob>>

\* barrier[i].parent, children[0], children[1], parentsense; ++i
McsInitLinks ==
    /\ alg = "mcs_init"
    /\ pc[0] = "links"
    /\ LET i == local[0].i IN
       nodes' = [nodes EXCEPT ![i] = @ @@
                    [parent |-> IF i = 0 THEN McsDummy(i)
                                ELSE McsChildNotReady(ShiftRight(i - 1, 2),
                                                      BitAnd(i - 1, 3)),
                     children |-> [c \in 0 .. 1 |->
                                      IF ShiftLeft(i, 1) + 1 + c >= nthr
                                        THEN McsDummy(i)
                                        ELSE McsParentSense(ShiftLeft(i, 1) + 1 + c)],
                     parentsense |-> 0]]
    /\ local' = [local EXCEPT ![0].i = @ + 1]
    /\ pc' = [pc EXCEPT ![0] = IF local[0].i + 1 < nthr THEN "havechild" ELSE "done"]
    /\ UNCHANGED <<config, barrier, groups, flags, rounds, state, calls, writes, oob>>

NextMcsSetup == McsInitHaveChild \/ McsInitLinks

SpecMcsSetup == InitMcsSetup /\ [][NextMcsSetup]_vars

(***************************************************************************)
(* The state_init functions of the dissemination, tournament and MCS       *)
(* barriers.  barrier holds the file-scope counter the algorithm draws ids *)
(* from (ck_barrier_dissemination_tid, ck_barrier_tournament_tid,          *)
(* ck_barrier_mcs_tid; static storage, so 0 when the process starts) and   *)
(* the number of barrier instances set up so far.  nthr is the participant *)
(* count of the latest instance; state[t] is the state struct participant  *)
(* t passed to state_init for that instance, present once it has called.   *)
(***************************************************************************)
StateInitAlgs ==
    {"dissemination_state_init", "tournament_state_init", "mcs_state_init"}

InitStateInitWith(a, n) ==
    /\ alg = a
    /\ nthr = n
    /\ barrier = [tid |-> 0, instances |-> 1]
    /\ state = <<>>
    /\ pc = [t \in Threads |-> "idle"]
    /\ calls = [t \in Threads |-> 0]
    /\ oob = [t \in Threads |-> FALSE]
    /\ local = <<>>
    /\ writes = 0
    /\ tnode = <<>>
    /\ groups = <<>>
    /\ flags = <<>>
    /\ rounds = <<>>
    /\ nodes = <<>>

InitStateInit ==
    \E a \in StateInitAlgs : \E n \in SmallThreadCounts : InitStateInitWith(a, n)

\* the part common to the three functions: the fetch-and-add on the counter
\* and the stores to the caller's state struct
StateInitDraw(t, s) ==
    /\ t \in Threads
    /\ pc[t] = "idle"
    /\ state' = (t :> s) @@ state
    /\ barrier' = [barrier EXCEPT !.tid = @ + 1]
    /\ pc' = [pc EXCEPT ![t] = "done"]
    /\ calls' = [calls EXCEPT ![t] = @ + 1]
    /\ UNCHANGED <<config, groups, flags, rounds, nodes, local, writes, oob>>

\* ck_barrier_dissemination_state_init
ck_barrier_dissemination_state_init(t) ==
    /\ alg = "dissemination_state_init"
    /\ StateInitDraw(t, [parity |-> 0, sense |-> AllOnes, tid |-> barrier.tid])

\* ck_barrier_tournament_state_init
ck_barrier_tournament_state_init(t) ==
    /\ alg = "tournament_state_init"
    /\ StateInitDraw(t, [sense |-> AllOnes, vpid |-> barrier.tid])

\* ck_barrier_mcs_state_init
ck_barrier_mcs_state_init(t) ==
    /\ alg = "mcs_state_init"
    /\ StateInitDraw(t, [sense |-> AllOnes, vpid |-> barrier.tid])

\* once every participant of the latest instance has its state, another
\* instance of the same algorithm is set up for n participants
\* (ck_barrier_dissemination_init, ck_barrier_tournament_round_init,
\* ck_barrier_mcs_init: none of them stores to the id counter)
StateInitNextInstance ==
    /\ alg \in StateInitAlgs
    /\ \A t \in Threads : pc[t] = "done"
    /\ barrier.instances < MaxInstances
    /\ \E n \in SmallThreadCounts :
          /\ nthr' = n
          /\ pc' = [t \in 0 .. (n - 1) |-> "idle"]
          /\ calls' = [t \in 0 .. (n - 1) |-> 0]
          /\ oob' = [t \in 0 .. (n - 1) |-> FALSE]
    /\ state' = <<>>
    /\ barrier' = [barrier EXCEPT !.instances = @ + 1]
    /\ UNCHANGED <<alg, tnode, groups, flags, rounds, nodes, local, writes>>

NextStateInit ==
    \/ \E t \in ThreadIds : ck_barrier_dissemination_state_init(t)
    \/ \E t \in ThreadIds : ck_barrier_tournament_state_init(t)
    \/ \E t \in ThreadIds : ck_barrier_mcs_state_init(t)
    \/ StateInitNextInstance

SpecStateInit == InitStateInit /\ [][NextStateInit]_vars

(***************************************************************************)
(* C5.  MCS tree barrier, arrival completeness: no thread has returned     *)
(* from its e-th ck_barrier_mcs call before every thread has entered its   *)
(* e-th call; and while node 0 is releasing through children[0..1] in its  *)
(* e-th call, every node has already stored 0 through its parent pointer   *)
(* in its e-th call.                                                       *)
(***************************************************************************)
McsNotified(u) ==
    IF pc[u] \in {"idle", "spin", "release0", "release1"}
      THEN calls[u] ELSE calls[u] - 1

McsArrivalComplete ==
    alg = "mcs" =>
        /\ \A t \in Threads : \A u \in Threads : Returned(t) <= calls[u]
        /\ pc[0] \in {"release0", "release1"} =>
               \A u \in Threads : McsNotified(u) >= calls[0]

\* six nodes (two levels of the 4-ary tree, node 5 below node 1): node 0 is
\* releasing in its second episode while node 5 still waits for its release
McsArrivalWitness ==
    /\ alg = "mcs"
    /\ nthr = 6
    /\ nodes[5].parent = McsChildNotReady(1, 0)
    /\ nodes[0].children[1] = McsParentSense(2)
    /\ pc[0] = "release1" /\ calls[0] = 2
    /\ pc[5] = "spin" /\ calls[5] = 2

(***************************************************************************)
(* The five barriers side by side, each with up to MaxSmallThreads         *)
(* threads, and the same with the threads' scheduling made explicit.       *)
(***************************************************************************)
Init ==
    \/ \E n \in SmallThreadCounts : InitCentralizedWith(n)
    \/ \E sizes \in CombiningSizes(MaxSmallThreads) : InitCombiningWith(sizes)
    \/ \E n \in SmallThreadCounts : InitDisseminationWith(n)
    \/ \E n \in SmallThreadCounts : InitTournamentWith(n)
    \/ \E n \in SmallThreadCounts : InitMcsWith(n)

Next ==
    \/ NextCentralized
    \/ NextCombining
    \/ NextDissemination
    \/ NextTournament
    \/ NextMcs

Spec == Init /\ [][Next]_vars

\* a step of thread t inside a wait call it has entered: every step but the
\* call itself and the outcome of undefined behaviour
Inside(t) ==
    \/ CentralizedReset(t) \/ CentralizedRelease(t) \/ CentralizedSpin(t)
    \/ CombiningFaa(t) \/ CombiningReset(t) \/ CombiningFlip(t) \/ CombiningSpin(t)
    \/ DisseminationSignal(t) \/ DisseminationWait(t)
    \/ TournamentArrive(t) \/ TournamentChampion(t) \/ TournamentLoser(t)
    \/ TournamentWakeup(t)
    \/ McsCheck(t) \/ McsReinit(t) \/ McsNotify(t) \/ McsSpin(t)
    \/ McsRelease0(t) \/ McsRelease1(t)

\* every thread is a running OS thread: inside a wait call it keeps taking
\* steps; whether and when it calls wait again is up to the caller
FairSpec == Spec /\ \A t \in ThreadIds : WF_vars(Inside(t))

(***************************************************************************)
(* C6.  Mutual release and self-rearming, for each of the five barriers    *)
(* with N >= 2 threads that keep running inside wait: once every thread    *)
(* has called wait for episode e, or once some thread has returned from    *)
(* episode e, every thread eventually returns from episode e; for every    *)
(* episode of a sequence of calls with no reset between them.              *)
(***************************************************************************)
AllEntered(e) == \A t \in Threads : calls[t] >= e
SomeReturned(e) == \E t \in Threads : Returned(t) >= e
AllReturned(e) == \A t \in Threads : Returned(t) >= e

MutualRelease ==
    \A e \in 1 .. MaxEpisodes :
        (nthr >= 2 /\ (AllEntered(e) \/ SomeReturned(e))) ~> AllReturned(e)

\* a fast thread is already inside episode 3 while a slow one is still
\* inside episode 2 (tournament, three threads)
MutualReleaseWitness ==
    /\ alg = "tournament"
    /\ nthr = 3
    /\ \E t \in Threads : \E u \in Threads :
          /\ calls[t] = 3 /\ pc[t] # "idle"
          /\ calls[u] = 2 /\ pc[u] # "idle"

(***************************************************************************)
(* C7.  N = 1: with a single participant the wait call of each barrier     *)
(* never executes a spin-loop iteration and never reads a slot outside the *)
(* initialised structures.                                                 *)
(***************************************************************************)
\* thread t stands at a spin loop whose condition holds: its next load fails
\* and it executes ck_pr_stall() (or has just done so)
Stalling(t) ==
    \/ alg = "centralized" /\ pc[t] = "spin" /\ local[t].sense # barrier.sense
    \/ alg = "combining" /\ pc[t] = "spin"
          /\ local[t].sense # groups[local[t].tnode].sense
    \/ alg = "dissemination" /\ pc[t] = "wait"
          /\ flags[state[t].tid][state[t].parity][local[t].i].tflag # state[t].sense
    \/ alg = "tournament" /\ pc[t] = "arrive"
          /\ TournamentRoleRead(t, local[t].round) \in {"WINNER", "CHAMPION"}
          /\ TournamentFlagUnset(t, local[t].round)
    \/ alg = "tournament" /\ pc[t] = "loser"
          /\ TournamentFlagUnset(t, local[t].round)
    \/ alg = "mcs" /\ pc[t] = "check" /\ McsChildNotReadyAt(t, local[t].i)
    \/ alg = "mcs" /\ pc[t] = "spin"
          /\ nodes[state[t].vpid].parentsense # state[t].sense

SingleThreadPassesThrough ==
    nthr = 1 => \A t \in Threads : ~Stalling(t) /\ ~oob[t] /\ pc[t] # "undefined"

(***************************************************************************)
(* C8.  Sense alternation: after e completed wait calls the private sense  *)
(* of a centralized, combining, tournament or MCS thread is its initial    *)
(* value for even e and the complement for odd e; a dissemination thread   *)
(* has parity e mod 2 and a sense inverted once per two completed calls.   *)
(***************************************************************************)
InitialSense == IF alg = "centralized" THEN 0 ELSE AllOnes

SenseAlternation ==
    \A t \in Threads :
        pc[t] = "idle" =>
            IF alg = "dissemination"
              THEN /\ state[t].parity = Returned(t) % 2
                   /\ state[t].sense =
                         IF (Returned(t) \div 2) % 2 = 0
                           THEN InitialSense ELSE Not(InitialSense)
              ELSE state[t].sense =
                      IF Returned(t) % 2 = 0 THEN InitialSense ELSE Not(InitialSense)

\* a dissemination thread between its third and fourth call: parity 1 and
\* the sense inverted once, while another thread is still in episode 3
SenseAlternationWitness ==
    /\ alg = "dissemination"
    /\ nthr = 3
    /\ \E t \in Threads : \E u \in Threads :
          /\ pc[t] = "idle" /\ Returned(t) = 3
          /\ state[t].parity = 1 /\ state[t].sense = 0
          /\ pc[u] # "idle"

(***************************************************************************)
(* C9.  Dissemination round trip.  As claimed: after two completed wait    *)
(* calls state.sense is back at its initial value (all-ones) and parity is *)
(* 0.  As the code has it: after two completed calls parity is 0 and       *)
(* state.sense is the complement of its initial value; four completed      *)
(* calls restore both.                                                     *)
(***************************************************************************)
DisseminationTwoCallsRestoreSense ==
    alg = "dissemination" =>
        \A t \in Threads :
            (pc[t] = "idle" /\ Returned(t) = 2) =>
                state[t].sense = AllOnes /\ state[t].parity = 0

DisseminationRoundTrip ==
    alg = "dissemination" =>
        \A t \in Threads :
            /\ (pc[t] = "idle" /\ Returned(t) = 2) =>
                   state[t].sense = Not(AllOnes) /\ state[t].parity = 0
            /\ (pc[t] = "idle" /\ Returned(t) = 4) =>
                   state[t].sense = AllOnes /\ state[t].parity = 0

\* some thread of a four-thread barrier has completed its fourth call
DisseminationRoundTripWitness ==
    /\ alg = "dissemination"
    /\ nthr = 4
    /\ \E t \in Threads : pc[t] = "idle" /\ Returned(t) = 4

(***************************************************************************)
(* C10.  Centralized shared state: whenever no thread is inside the wait   *)
(* call the count is 0 and the shared sense is all-ones after an odd       *)
(* number of episodes and 0 after an even number; the count never exceeds  *)
(* N; at most one thread at a time is writing count and sense, and by the  *)
(* end of episode e exactly e stores to the sense have been made.          *)
(***************************************************************************)
CentralizedWriters == {t \in Threads : pc[t] \in {"reset", "release"}}

CentralizedSharedState ==
    alg = "centralized" =>
        /\ barrier.value <= nthr
        /\ Cardinality(CentralizedWriters) <= 1
        /\ \A t \in Threads : writes <= calls[t]
        /\ (\A t \in Threads : pc[t] = "idle") =>
              /\ barrier.value = 0
              /\ \A t \in Threads :
                    /\ writes = Returned(t)
                    /\ barrier.sense = IF Returned(t) % 2 = 1 THEN AllOnes ELSE 0

\* N = 4 after episode 3: all threads outside, shared sense all-ones
CentralizedSharedStateWitness ==
    /\ alg = "centralized"
    /\ nthr = 4
    /\ \A t \in Threads : pc[t] = "idle" /\ Returned(t) = 3
    /\ barrier.sense = AllOnes
    /\ barrier.value = 0

(***************************************************************************)
(* C11.  Combining-tree node invariant: at every group (seed, interior,    *)
(* leaf) count stays within 0 .. k; at most one thread at a time is the    *)
(* last arrival of a group, and it resets the count only when all k        *)
(* arrivals are in; when all threads have returned from episode e every    *)
(* group has count 0 and its sense has been stored e times, each store an  *)
(* inversion, so it is 0 inverted e times.                                 *)
(***************************************************************************)
\* the threads that took the last-arrival branch at group g and have not yet
\* stored its sense
CombiningLastArrivals(g) ==
    {t \in Threads :
        /\ pc[t] # "idle"
        /\ \/ pc[t] \in {"reset", "flip"} /\ local[t].tnode = g
           \/ \E i \in 1 .. Len(local[t].stack) : local[t].stack[i] = g}

CombiningNodeInvariant ==
    alg = "combining" =>
        /\ \A g \in DOMAIN groups :
              /\ groups[g].count >= 0
              /\ groups[g].count <= groups[g].k
              /\ Cardinality(CombiningLastArrivals(g)) <= 1
              /\ \A t \in Threads :
                    /\ (pc[t] = "reset" /\ local[t].tnode = g)
                          => groups[g].count = groups[g].k
                    /\ (pc[t] = "flip" /\ local[t].tnode = g)
                          => groups[g].count = 0
        /\ \A e \in 0 .. MaxEpisodes :
              (\A t \in Threads : pc[t] = "idle" /\ calls[t] = e) =>
                  \A g \in DOMAIN groups :
                      /\ groups[g].count = 0
                      /\ writes[g] = e
                      /\ groups[g].sense = (IF e % 2 = 1 THEN AllOnes ELSE 0)

\* a tree of three groups under the seed after three completed episodes
CombiningNodeWitness ==
    /\ alg = "combining"
    /\ DOMAIN groups = 0 .. 3
    /\ groups[1].lchild = 3
    /\ \A t \in Threads : pc[t] = "idle" /\ calls[t] = 3
    /\ \A g \in DOMAIN groups : writes[g] = 3

(***************************************************************************)
(* C12.  Combining-tree construction scenario: a seed with k = 0 and three *)
(* group_init calls of nthr = 2 each.  As claimed: the seed and the first  *)
(* two registered groups all end with k = 2.                               *)
(***************************************************************************)
\* the three calls of the scenario have returned
CombiningThreeGroupsOfTwo ==
    /\ alg = "combining_init"
    /\ nthr = 3
    /\ \A t \in Threads : local[t].nthr = 2 /\ pc[t] = "done"

CombiningScenarioAsClaimed ==
    CombiningThreeGroupsOfTwo =>
        /\ groups[0].k = 2
        /\ groups[writes[1]].k = 2
        /\ groups[writes[2]].k = 2

(***************************************************************************)
(* C12, as the code has it: after the three calls the seed has k = 2 (two  *)
(* children), the first registered group has k = 3 (its two threads and    *)
(* the third group, inserted as its left child), the second and the third  *)
(* registered group have k = 2.                                            *)
(***************************************************************************)
CombiningScenario ==
    CombiningThreeGroupsOfTwo =>
        /\ groups[0].k = 2
        /\ groups[0].lchild = writes[1] /\ groups[0].rchild = writes[2]
        /\ groups[writes[1]].k = 3
        /\ groups[writes[1]].lchild = writes[3]
        /\ groups[writes[2]].k = 2
        /\ groups[writes[3]].k = 2

\* the scenario has run, with the calls overlapping: the caller that started
\* last was inserted first
CombiningScenarioWitness ==
    /\ CombiningThreeGroupsOfTwo
    /\ writes = <<3, 1, 2>>

(***************************************************************************)
(* C17.  Combining-tree registration, for concurrent group_init calls in   *)
(* any interleaving: at most one caller is between lock and unlock; every  *)
(* caller past its insertion is in the tree exactly once; the j-th         *)
(* inserted group sits at position j of the level-order numbering (the     *)
(* seed is position 0; position j hangs under position (j - 1) div 2, left *)
(* slot for odd j, right slot for even j), so no slot was overwritten and  *)
(* the tree is filled level by level; every other child slot is NULL; and  *)
(* k of every group is its own nthr (0 for the seed) plus the number of    *)
(* children it has.                                                        *)
(***************************************************************************)
\* the group at position p of the level-order numbering
CombiningAt(p) == IF p = 0 THEN 0 ELSE writes[p]

\* the positions of the children of position p that are filled
CombiningChildPositions(p) == {j \in 1 .. Len(writes) : (j - 1) \div 2 = p}

CombiningOwnThreads(g) == IF g = 0 THEN 0 ELSE local[g - 1].nthr

CombiningRegistration ==
    alg = "combining_init" =>
        /\ Cardinality({t \in Threads : pc[t] \in {"traverse", "unlock"}}) <= 1
        /\ barrier.mutex = (\E t \in Threads : pc[t] \in {"traverse", "unlock"})
        /\ \A t \in Threads :
              Cardinality({j \in 1 .. Len(writes) : writes[j] = tnode[t]})
                  = (IF pc[t] \in {"unlock", "done"} THEN 1 ELSE 0)
        /\ \A j \in 1 .. Len(writes) :
              /\ groups[writes[j]].parent = CombiningAt((j - 1) \div 2)
              /\ groups[CombiningAt((j - 1) \div 2)]
                     [IF j % 2 = 1 THEN "lchild" ELSE "rchild"] = writes[j]
        /\ \A p \in 0 .. Len(writes) :
              LET g == CombiningAt(p) IN
              /\ groups[g].lchild = (IF 2 * p + 1 <= Len(writes)
                                       THEN writes[2 * p + 1] ELSE NULL)
              /\ groups[g].rchild = (IF 2 * p + 2 <= Len(writes)
                                       THEN writes[2 * p + 2] ELSE NULL)
              /\ groups[g].k = CombiningOwnThreads(g)
                                 + Cardinality(CombiningChildPositions(p))
        /\ \A g \in DOMAIN groups :
              (g # 0 /\ \A j \in 1 .. Len(writes) : writes[j] # g) =>
                  /\ groups[g].k = CombiningOwnThreads(g)
                  /\ groups[g].lchild = NULL /\ groups[g].rchild = NULL

\* four overlapping calls have returned; the fourth inserted group is the
\* right child of the first inserted one, which is not the first caller's
CombiningRegistrationWitness ==
    /\ alg = "combining_init"
    /\ nthr = 4
    /\ \A t \in Threads : pc[t] = "done"
    /\ writes[1] # 1
    /\ groups[writes[1]].rchild = writes[4]
    /\ groups[writes[1]].k = CombiningOwnThreads(writes[1]) + 2

(***************************************************************************)
(* C13.  Tournament role table: for every participant count N >= 1 the     *)
(* table built by ck_barrier_tournament_round_init holds exactly one       *)
(* CHAMPION slot, thread 0 at round size(N) - 1; for N = 5 that is round   *)
(* 3, thread 4 is BYE at round 1, and rounds 1 and 2 hold WINNER/LOSER     *)
(* pairs.                                                                  *)
(***************************************************************************)
TournamentChampionSlots ==
    {s \in Threads \X (0 .. ck_barrier_tournament_size(nthr)) :
        /\ s[2] \in DOMAIN rounds[s[1]]
        /\ rounds[s[1]][s[2]].role = "CHAMPION"}

\* a WINNER at round k whose opponent is a LOSER at round k that points back
TournamentPairAt(k) ==
    \E i \in Threads :
        /\ rounds[i][k].role = "WINNER"
        /\ rounds[i][k].opponent \in Threads
        /\ rounds[rounds[i][k].opponent][k].role = "LOSER"
        /\ rounds[rounds[i][k].opponent][k].opponent = i

TournamentRoleTable ==
    alg = "tournament" =>
        /\ TournamentChampionSlots = {<<0, ck_barrier_tournament_size(nthr) - 1>>}
        /\ nthr = 5 =>
              /\ rounds[0][3].role = "CHAMPION"
              /\ rounds[4][1].role = "BYE"
              /\ TournamentPairAt(1)
              /\ TournamentPairAt(2)

(***************************************************************************)
(* C14.  MCS topology scenario, N = 7.  As claimed: after                  *)
(* ck_barrier_mcs_init(nodes, 7) node 0's havechild is                     *)
(* {all-ones, all-ones, all-ones, 0}.                                      *)
(***************************************************************************)
McsInitOfSevenDone == alg = "mcs_init" /\ nthr = 7 /\ pc[0] = "done"

McsSevenAsClaimed ==
    McsInitOfSevenDone =>
        nodes[0].havechild = (0 :> AllOnes) @@ (1 :> AllOnes)
                               @@ (2 :> AllOnes) @@ (3 :> 0)

(***************************************************************************)
(* C14, as the code has it: with N = 7 node 0 has the four children 1..4,  *)
(* so its havechild is all-ones in all four slots; node 1 has the children *)
(* 5 and 6, so its havechild is {all-ones, all-ones, 0, 0}; the nodes 2..6 *)
(* have none.  The whole result is the table ck_barrier_mcs_init(7).       *)
(***************************************************************************)
McsSeven ==
    McsInitOfSevenDone =>
        /\ nodes[0].havechild = [j \in 0 .. 3 |-> AllOnes]
        /\ nodes[1].havechild = [j \in 0 .. 3 |-> IF j < 2 THEN AllOnes ELSE 0]
        /\ \A i \in 2 .. 6 : nodes[i].havechild = [j \in 0 .. 3 |-> 0]
        /\ nodes = ck_barrier_mcs_init(7)

McsSevenWitness ==
    /\ McsInitOfSevenDone
    /\ DOMAIN nodes = 0 .. 6
    /\ nodes[6].parent = McsChildNotReady(1, 1)

(***************************************************************************)
(* C18.  MCS topology well-formedness, in every state after                *)
(* ck_barrier_mcs_init(nodes, N), also while waits run: havechild[j] of    *)
(* node i is all-ones exactly when 4i + j + 1 < N, else 0; the parent of   *)
(* node i > 0 is childnotready[(i - 1) mod 4] of node (i - 1) div 4, a     *)
(* slot whose havechild is all-ones, and every such slot has exactly one   *)
(* notifier; node 0's parent is its own dummy; children[c] of node i is    *)
(* parentsense of node 2i + 1 + c when that is < N, else node i's dummy,   *)
(* and every node other than 0 is released by exactly one node.            *)
(***************************************************************************)
McsTableBuilt ==
    (alg = "mcs") \/ (alg = "mcs_init" /\ pc[0] = "done")

\* the nodes whose parent pointer is childnotready[j] of node i
McsNotifiers(i, j) == {u \in Threads : nodes[u].parent = McsChildNotReady(i, j)}

\* the (node, slot) pairs whose children pointer is parentsense of node u
McsReleasers(u) ==
    {s \in Threads \X (0 .. 1) : nodes[s[1]].children[s[2]] = McsParentSense(u)}

McsTopology ==
    McsTableBuilt =>
        \A i \in Threads :
            /\ \A j \in 0 .. 3 :
                  /\ nodes[i].havechild[j]
                        = (IF 4 * i + j + 1 < nthr THEN AllOnes ELSE 0)
                  /\ Cardinality(McsNotifiers(i, j))
                        = (IF nodes[i].havechild[j] = AllOnes THEN 1 ELSE 0)
            /\ nodes[i].parent =
                  (IF i = 0 THEN McsDummy(0)
                   ELSE McsChildNotReady((i - 1) \div 4, (i - 1) % 4))
            /\ i > 0 => nodes[(i - 1) \div 4].havechild[(i - 1) % 4] = AllOnes
            /\ \A c \in 0 .. 1 :
                  nodes[i].children[c] =
                      (IF 2 * i + 1 + c < nthr THEN McsParentSense(2 * i + 1 + c)
                       ELSE McsDummy(i))
            /\ Cardinality(McsReleasers(i)) = (IF i = 0 THEN 0 ELSE 1)

\* six nodes, after two complete episodes and into a third
McsTopologyWitness ==
    /\ alg = "mcs"
    /\ nthr = 6
    /\ \A t \in Threads : Returned(t) >= 2
    /\ pc[5] = "spin" /\ calls[5] = 3
    /\ nodes[1].childnotready[0] = 0

(***************************************************************************)
(* C15.  Virtual thread ids are per barrier instance and dense: the ids    *)
(* the participants of the latest instance have received from state_init   *)
(* are pairwise distinct and lie in 0 .. N - 1 (so once all N have called, *)
(* they are exactly 0 .. N - 1), also when an instance of the same         *)
(* algorithm was set up before.                                            *)
(***************************************************************************)
VirtualId(t) ==
    IF alg = "dissemination_state_init" THEN state[t].tid ELSE state[t].vpid

VirtualIdsDense ==
    alg \in StateInitAlgs =>
        /\ \A t \in DOMAIN state : VirtualId(t) \in 0 .. (nthr - 1)
        /\ \A t \in DOMAIN state : \A u \in DOMAIN state :
              t # u => VirtualId(t) # VirtualId(u)
        /\ (\A t \in Threads : pc[t] = "done") =>
              {VirtualId(t) : t \in DOMAIN state} = 0 .. (nthr - 1)

(***************************************************************************)
(* C16.  Dissemination flag protection.  No thread is ever more than one   *)
(* call ahead of another, and a thread one call ahead uses the other       *)
(* parity.  Every store of a wait call (the round-0 store of the call      *)
(* step, a later round's store) that goes to flags[p][k].tflag of a thread *)
(* j which is inside a call that uses parity p and has not passed round k  *)
(* writes j's current state.sense; and every step that changes such a flag *)
(* leaves j's current state.sense in it.                                   *)
(***************************************************************************)
\* the round of the store thread t performs in its next step
DisseminationStoreRound(t) == IF pc[t] = "idle" THEN 0 ELSE local[t].i

\* thread j is inside a call that uses parity p and has not passed round k
DisseminationObserving(j, p, k) ==
    /\ pc[j] \in {"signal", "wait"}
    /\ state[j].parity = p
    /\ local[j].i <= k

DisseminationStoreProtected(t) ==
    LET k == DisseminationStoreRound(t)
        p == state[t].parity
        j == flags[state[t].tid][p][k].pflag
    IN  DisseminationObserving(j, p, k) => state[t].sense = state[j].sense

DisseminationFlagsKept ==
    \A j \in Threads : \A p \in {0, 1} : \A k \in DOMAIN flags[j][p] :
        (DisseminationObserving(j, p, k)
            /\ flags'[j][p][k].tflag # flags[j][p][k].tflag)
          => flags'[j][p][k].tflag = state[j].sense

DisseminationFlagProtection ==
    /\ [](alg = "dissemination" =>
            \A t \in Threads : \A j \in Threads :
                /\ calls[t] <= calls[j] + 1
                /\ (pc[t] # "idle" /\ pc[j] # "idle" /\ calls[t] = calls[j] + 1)
                      => state[t].parity # state[j].parity)
    /\ [][alg = "dissemination" =>
            /\ DisseminationFlagsKept
            /\ \A t \in ThreadIds :
                  ((DisseminationCall(t) /\ DisseminationRounds(nthr) > 0)
                      \/ DisseminationSignal(t))
                    => DisseminationStoreProtected(t)]_vars

\* three threads: a fast thread is in its third call and has stored into the
\* parity-0 flag of round 0 of its partner, which is still inside its second
\* call (parity 1), spinning at round 1
DisseminationFlagWitness ==
    /\ alg = "dissemination"
    /\ nthr = 3
    /\ \E t \in Threads :
          LET j == flags[state[t].tid][0][0].pflag IN
          /\ calls[t] = 3 /\ pc[t] = "wait" /\ state[t].parity = 0
          /\ calls[j] = 2 /\ pc[j] = "wait" /\ state[j].parity = 1
          /\ local[j].i = 1
          /\ flags[j][0][0].tflag = state[t].sense
          /\ flags[j][0][0].tflag # state[j].sense

(***************************************************************************)
(* C19.  MCS arrival notifications are never lost.  In every state each    *)
(* childnotready[j] is 0 or havechild[j], and the slots of absent children *)
(* are 0.  In every step: a node other than 0 that stores 0 through its    *)
(* parent pointer finds all-ones in that slot (the parent has re-armed it  *)
(* for this episode), and a parent that re-arms the slot of an existing    *)
(* child finds 0 in it (the notification it has observed; none is          *)
(* overwritten unseen).                                                    *)
(***************************************************************************)
McsSlotOf(ptr) == nodes[ptr.node].childnotready[ptr.slot]

McsNotificationsKept ==
    /\ [](alg = "mcs" =>
            \A i \in Threads : \A j \in 0 .. 3 :
                /\ nodes[i].childnotready[j] \in {0, nodes[i].havechild[j]}
                /\ 4 * i + j + 1 >= nthr => nodes[i].childnotready[j] = 0)
    /\ [][alg = "mcs" =>
            \A t \in ThreadIds :
                /\ (McsNotify(t) /\ state[t].vpid # 0)
                      => McsSlotOf(nodes[state[t].vpid].parent) = AllOnes
                /\ (McsReinit(t)
                      /\ nodes[state[t].vpid].havechild[local[t].i] # 0)
                      => nodes[state[t].vpid].childnotready[local[t].i] = 0]_vars

\* six nodes, second episode: node 5 has notified node 1, which has not yet
\* re-armed the slot; node 0 re-armed its four slots in the first episode and
\* none of its children has notified it yet
McsNotificationsWitness ==
    /\ alg = "mcs"
    /\ nthr = 6
    /\ calls[5] = 2 /\ pc[5] = "spin"
    /\ calls[1] = 2 /\ pc[1] = "check"
    /\ nodes[1].childnotready[0] = 0
    /\ calls[0] = 2 /\ pc[0] = "check"
    /\ \A j \in 0 .. 3 : nodes[0].childnotready[j] = AllOnes

(***************************************************************************)
(* C20.  Tournament wait only visits well-defined slots, N >= 2.  The      *)
(* table: a role is left unassigned exactly where i mod 2^k is neither 0   *)
(* nor 2^(k-1); in every row the rounds from 1 upward hold BYE or WINNER   *)
(* up to one LOSER or CHAMPION slot; a WINNER or CHAMPION i at round k has *)
(* as opponent the thread i + 2^(k-1) < N, a LOSER at round k whose        *)
(* opponent is i, and a LOSER i has as opponent i - 2^(k-1), a WINNER or   *)
(* CHAMPION at round k.  The wait: no thread reads a slot outside its row  *)
(* or one without a role; the slot the arrival pass reads next is in       *)
(* rounds 1 .. size - 1 and is BYE, WINNER, LOSER or CHAMPION (never       *)
(* DROPOUT); a thread spinning as CHAMPION or LOSER is at such a slot; the *)
(* slot the wakeup pass reads next is WINNER or BYE above round 0 and      *)
(* DROPOUT at round 0.                                                     *)
(***************************************************************************)
TournamentSlotRole(i, k) == rounds[i][k].role

\* the round at which the arrival pass of row i ends
TournamentEndsAt(i, k) ==
    /\ TournamentSlotRole(i, k) \in {"LOSER", "CHAMPION"}
    /\ \A r \in 1 .. (k - 1) : TournamentSlotRole(i, r) \in {"BYE", "WINNER"}

TournamentTableWellDefined ==
    \A i \in Threads :
        /\ DOMAIN rounds[i] = 0 .. (ck_barrier_tournament_size(nthr) - 1)
        /\ TournamentSlotRole(i, 0) = "DROPOUT"
        /\ Cardinality({k \in DOMAIN rounds[i] : k >= 1 /\ TournamentEndsAt(i, k)}) = 1
        /\ \A k \in DOMAIN rounds[i] \ {0} :
              LET half == 2 ^ (k - 1)
                  opp == rounds[i][k].opponent
              IN  /\ (TournamentSlotRole(i, k) = "UNSET")
                        <=> (i % (2 * half) \notin {0, half})
                  /\ TournamentSlotRole(i, k) # "DROPOUT"
                  /\ TournamentSlotRole(i, k) \in {"WINNER", "CHAMPION"} =>
                        /\ opp = i + half
                        /\ opp \in Threads
                        /\ TournamentSlotRole(opp, k) = "LOSER"
                        /\ rounds[opp][k].opponent = i
                  /\ TournamentSlotRole(i, k) = "LOSER" =>
                        /\ opp = i - half
                        /\ opp \in Threads
                        /\ TournamentSlotRole(opp, k) \in {"WINNER", "CHAMPION"}
                        /\ rounds[opp][k].opponent = i

TournamentVisitsDefined ==
    \A t \in Threads :
        LET i == state[t].vpid
            r == local[t].round
        IN  /\ ~oob[t]
            /\ pc[t] # "undefined"
            /\ i \in Threads
            /\ pc[t] = "idle" => TournamentSlotRole(i, 1) \in {"BYE", "WINNER", "LOSER", "CHAMPION"}
            /\ pc[t] = "arrive" =>
                  /\ r \in 1 .. (ck_barrier_tournament_size(nthr) - 1)
                  /\ TournamentSlotRole(i, r) \in {"BYE", "WINNER", "LOSER", "CHAMPION"}
                  /\ \A q \in 1 .. (r - 1) : TournamentSlotRole(i, q) \in {"BYE", "WINNER"}
            /\ pc[t] = "champion" => TournamentEndsAt(i, r) /\ TournamentSlotRole(i, r) = "CHAMPION"
            /\ pc[t] = "loser" => TournamentEndsAt(i, r) /\ TournamentSlotRole(i, r) = "LOSER"
            /\ pc[t] = "wakeup" =>
                  /\ r \in 0 .. (ck_barrier_tournament_size(nthr) - 2)
                  /\ TournamentEndsAt(i, CHOOSE k \in DOMAIN rounds[i] :
                                            k >= 1 /\ TournamentEndsAt(i, k))
                  /\ r > 0 => TournamentSlotRole(i, r) \in {"WINNER", "BYE"}
                  /\ r = 0 => TournamentSlotRole(i, r) = "DROPOUT"

TournamentSlotsWellDefined ==
    (alg = "tournament" /\ nthr >= 2) =>
        TournamentTableWellDefined /\ TournamentVisitsDefined

\* five threads, second episode: thread 4 (BYE at rounds 1 and 2, LOSER at
\* round 3) is in its wakeup pass at the BYE slot of round 2, and thread 0,
\* the CHAMPION, is in its wakeup pass at its WINNER slot of round 1
TournamentSlotsWitness ==
    /\ alg = "tournament"
    /\ nthr = 5
    /\ calls[4] = 2 /\ pc[4] = "wakeup" /\ local[4].round = 2
    /\ TournamentSlotRole(4, 2) = "BYE"
    /\ calls[0] = 2 /\ pc[0] = "wakeup" /\ local[0].round = 1
    /\ TournamentSlotRole(0, 1) = "WINNER"
====
